---- MODULE Spec2Model ----
(***************************************************************************)
(* Maximum-likelihood estimation of the spatial error model                *)
(* (spreg/ml_error.py): BaseML_Error.__init__ and the three concentrated   *)
(* log-likelihood functions err_c_loglik, err_c_loglik_sp and              *)
(* err_c_loglik_ord.                                                       *)
(*                                                                         *)
(* Numbers are exact rationals <<num, den>> in lowest terms with den > 0.  *)
(* A floating-point value that is a logarithm is kept symbolically as      *)
(* [t |-> "fin", q |-> r], standing for (1/2)*ln(r) with r > 0, or as one  *)
(* of the IEEE specials "ninf", "pinf", "nan".                             *)
(***************************************************************************)
EXTENDS Integers, Sequences, FiniteSets, TLC

(***************************************************************************)
(* Bounds of the model.                                                    *)
(***************************************************************************)
\* the points the optimizer can propose are the halves p/2 with |p| <= LamNum
LamNum == 4
\* the iteration budget of the scalar optimizer (maxiter of the bounded method)
MaxIter == 3

(***************************************************************************)
(* Exact rational arithmetic (the arithmetic of numpy's float64 without    *)
(* rounding).                                                              *)
(***************************************************************************)
IAbs(i) == IF i < 0 THEN -i ELSE i

RECURSIVE Gcd(_, _)
Gcd(a, b) == IF b = 0 THEN a ELSE Gcd(b, a % b)

Rat(n, d) ==
    LET g == Gcd(IAbs(n), IAbs(d))
        s == IF d < 0 THEN -1 ELSE 1
    IN  <<(s * n) \div g, (s * d) \div g>>

R(i) == <<i, 1>>
\* sums over the least common denominator, products after cross-cancelling,
\* so that intermediate integers stay small
RAdd(a, b) ==
    LET g == Gcd(a[2], b[2])
    IN  Rat(a[1] * (b[2] \div g) + b[1] * (a[2] \div g), (a[2] \div g) * b[2])
RNeg(a) == <<-a[1], a[2]>>
RSub(a, b) == RAdd(a, RNeg(b))
RMul(a, b) ==
    LET g1 == Gcd(IAbs(a[1]), b[2])
        g2 == Gcd(IAbs(b[1]), a[2])
    IN  IF a[1] = 0 \/ b[1] = 0 THEN <<0, 1>>
        ELSE <<(a[1] \div g1) * (b[1] \div g2), (a[2] \div g2) * (b[2] \div g1)>>
RInv(a) == IF a[1] < 0 THEN <<-a[2], -a[1]>> ELSE <<a[2], a[1]>>
RDiv(a, b) == RMul(a, RInv(b))
RAbs(a) == <<IAbs(a[1]), a[2]>>
RSign(a) == IF a[1] > 0 THEN 1 ELSE IF a[1] < 0 THEN -1 ELSE 0
\* a <= b, for numbers of the same sign by comparing their quotient with 1
RLeq(a, b) ==
    IF RSign(a) # RSign(b) THEN RSign(a) < RSign(b)
    ELSE IF RSign(a) = 0 THEN TRUE
    ELSE LET r == RDiv(a, b)
         IN  IF RSign(a) > 0 THEN r[1] <= r[2] ELSE r[1] >= r[2]
RLess(a, b) == ~RLeq(b, a)

RECURSIVE RPow(_, _)
RPow(a, n) == IF n = 0 THEN R(1) ELSE RMul(a, RPow(a, n - 1))

RECURSIVE RSum(_)
RSum(s) == IF s = <<>> THEN R(0) ELSE RAdd(Head(s), RSum(Tail(s)))

\* the exact square root of a rational that is a perfect square
ISqrt(i) == CHOOSE r \in 0..i : r * r = i
RSqrt(a) == <<ISqrt(a[1]), ISqrt(a[2])>>

(***************************************************************************)
(* Dense matrices: a matrix is a sequence of rows, a row a sequence of     *)
(* rationals; y is an n x 1 matrix, x an n x k matrix.                     *)
(***************************************************************************)
NRows(A) == Len(A)
NCols(A) == Len(A[1])

\* the sequence f as an explicit tuple (its elements are computed once)
Tup(f) == f \o <<>>

MatT(A) == Tup([j \in 1..NCols(A) |-> Tup([i \in 1..NRows(A) |-> A[i][j]])])
MatSub(A, B) ==
    Tup([i \in 1..NRows(A) |-> Tup([j \in 1..NCols(A) |-> RSub(A[i][j], B[i][j])])])
MatScale(c, A) ==
    Tup([i \in 1..NRows(A) |-> Tup([j \in 1..NCols(A) |-> RMul(c, A[i][j])])])
MatDot(A, B) ==
    Tup([i \in 1..NRows(A) |-> Tup([j \in 1..NCols(B) |->
        RSum(Tup([l \in 1..NCols(A) |-> RMul(A[i][l], B[l][j])]))])])
Identity(n) ==
    Tup([i \in 1..n |-> Tup([j \in 1..n |-> IF i = j THEN R(1) ELSE R(0)])])
Zeros(r, c) == Tup([i \in 1..r |-> Tup([j \in 1..c |-> R(0)])])
Ones(r, c) == Tup([i \in 1..r |-> Tup([j \in 1..c |-> R(1)])])
FillDiagonal(A, v) ==
    Tup([i \in 1..NRows(A) |-> Tup([j \in 1..NCols(A) |->
        IF i = j THEN v ELSE A[i][j]])])
Diagonal(A) == Tup([i \in 1..NRows(A) |-> A[i][i]])
HStack(A, B) == Tup([i \in 1..NRows(A) |-> A[i] \o B[i]])
VStack(A, B) == A \o B

DropAt(s, j) == Tup([i \in 1..(Len(s) - 1) |-> IF i < j THEN s[i] ELSE s[i + 1]])
Minor(A, r, c) == Tup([i \in 1..(NRows(A) - 1) |-> DropAt(DropAt(A, r)[i], c)])

RECURSIVE Det(_)
Det(A) ==
    IF NRows(A) = 1 THEN A[1][1]
    ELSE RSum(Tup([j \in 1..NCols(A) |->
            RMul(IF j % 2 = 1 THEN A[1][j] ELSE RNeg(A[1][j]),
                 Det(Minor(A, 1, j)))]))

Cofactor(A, i, j) ==
    LET m == IF NRows(A) = 1 THEN R(1) ELSE Det(Minor(A, i, j))
    IN  IF (i + j) % 2 = 0 THEN m ELSE RNeg(m)

Singular(A) == Det(A) = R(0)
\* numpy.linalg.inv of a non-singular matrix
Inv(A) ==
    LET d == Det(A)
    IN  Tup([i \in 1..NRows(A) |-> Tup([j \in 1..NCols(A) |->
            RDiv(Cofactor(A, j, i), d)])])

(***************************************************************************)
(* Floating-point logarithms, kept symbolically.  LFin(q) stands for       *)
(* (1/2)*ln(q), q > 0: sums and differences of such values are again of    *)
(* that form, LFin(q) is zero exactly when q = 1, and LFin is increasing   *)
(* in q.  "ninf", "pinf" and "nan" are -inf, +inf and NaN.                 *)
(***************************************************************************)
LFin(q) == [t |-> "fin", q |-> q]
LNInf == [t |-> "ninf", q |-> R(0)]
LPInf == [t |-> "pinf", q |-> R(0)]
LNaN == [t |-> "nan", q |-> R(0)]

\* numpy.log of a real number
NpLog(r) ==
    IF RSign(r) > 0 THEN LFin(RMul(r, r))
    ELSE IF RSign(r) = 0 THEN LNInf ELSE LNaN

\* numpy.log(numpy.abs(r))
NpLogAbs(r) == NpLog(RAbs(r))

\* the real part of numpy.log of a complex number <<re, im>>: ln|z|
NpLogCplxReal(z) ==
    LET m == RAdd(RMul(z[1], z[1]), RMul(z[2], z[2]))
    IN  IF RSign(m) = 0 THEN LNInf ELSE LFin(m)

\* (n / 2.0) * numpy.log(r), n > 0
HalfNLog(n, r) ==
    IF RSign(r) > 0 THEN LFin(RPow(r, n))
    ELSE IF RSign(r) = 0 THEN LNInf ELSE LNaN

LNeg(a) ==
    CASE a.t = "fin" -> LFin(RDiv(R(1), a.q))
      [] a.t = "ninf" -> LPInf
      [] a.t = "pinf" -> LNInf
      [] OTHER -> LNaN

LAdd(a, b) ==
    CASE a.t = "nan" \/ b.t = "nan" -> LNaN
      [] a.t = "fin" /\ b.t = "fin" -> LFin(RMul(a.q, b.q))
      [] a.t = "fin" -> b
      [] b.t = "fin" -> a
      [] a.t = b.t -> a
      [] OTHER -> LNaN

LSub(a, b) == LAdd(a, LNeg(b))

RECURSIVE LSum(_)
LSum(s) == IF s = <<>> THEN LFin(R(1)) ELSE LAdd(Head(s), LSum(Tail(s)))

\* the floating-point comparison a <= b (false when either side is NaN)
LLeq(a, b) ==
    CASE a.t = "nan" \/ b.t = "nan" -> FALSE
      [] a.t = "ninf" \/ b.t = "pinf" -> TRUE
      [] a.t = "pinf" \/ b.t = "ninf" -> FALSE
      [] OTHER -> RLeq(a.q, b.q)

LIsZero(a) == a = LFin(R(1))

(***************************************************************************)
(* Sparse LU factorization (scipy.sparse.linalg.splu): Gaussian            *)
(* elimination with row pivoting.  The result is the diagonal of the upper *)
(* triangular factor, or ok = FALSE when the factor is exactly singular    *)
(* (SuperLU raises RuntimeError).                                          *)
(***************************************************************************)
PivotRow(A) ==
    LET cand == {i \in 1..NRows(A) : A[i][1] # R(0)}
        best == {i \in cand : \A j \in cand : RLeq(RAbs(A[j][1]), RAbs(A[i][1]))}
    IN  IF cand = {} THEN 0 ELSE CHOOSE i \in best : \A j \in best : i <= j

Eliminate(A, p) ==
    LET rest == DropAt(A, p)
    IN  Tup([i \in 1..(NRows(A) - 1) |->
            Tup([j \in 1..(NCols(A) - 1) |->
                RSub(rest[i][j + 1],
                     RMul(RDiv(rest[i][1], A[p][1]), A[p][j + 1]))])])

RECURSIVE SuperLU(_)
SuperLU(A) ==
    LET p == PivotRow(A)
    IN  IF p = 0 THEN [ok |-> FALSE, U |-> <<>>]
        ELSE IF NRows(A) = 1 THEN [ok |-> TRUE, U |-> <<A[1][1]>>]
        ELSE LET sub == SuperLU(Eliminate(A, p))
             IN  [ok |-> sub.ok, U |-> <<A[p][1]>> \o sub.U]

(***************************************************************************)
(* Complex numbers <<re, im>> and eigenvalues.                             *)
(***************************************************************************)
C(re, im) == <<re, im>>
CAdd(a, b) == <<RAdd(a[1], b[1]), RAdd(a[2], b[2])>>
CSub(a, b) == <<RSub(a[1], b[1]), RSub(a[2], b[2])>>
CMul(a, b) ==
    <<RSub(RMul(a[1], b[1]), RMul(a[2], b[2])),
      RAdd(RMul(a[1], b[2]), RMul(a[2], b[1]))>>
CReal(r) == <<r, R(0)>>
CZero == CReal(R(0))
COne == CReal(R(1))

RECURSIVE CSum(_)
CSum(s) == IF s = <<>> THEN CZero ELSE CAdd(Head(s), CSum(Tail(s)))

RECURSIVE CProd(_)
CProd(s) == IF s = <<>> THEN COne ELSE CMul(Head(s), CProd(Tail(s)))

\* lexicographic order on complex numbers (the order of the returned vector)
CLeq(a, b) == RLess(a[1], b[1]) \/ (a[1] = b[1] /\ RLeq(a[2], b[2]))

\* the values an eigenvalue of the modelled weighting matrices can take
EigGrid == {Rat(p, 2) : p \in -6..6}
EigCand == {C(re, im) : re \in EigGrid, im \in {Rat(q, 2) : q \in -2..2}}

\* det(z*I - A) at a complex z, by cofactor expansion
RECURSIVE CDet(_)
CDet(A) ==
    IF NRows(A) = 1 THEN A[1][1]
    ELSE CSum(Tup([j \in 1..NCols(A) |->
            CMul(IF j % 2 = 1 THEN A[1][j] ELSE CSub(CZero, A[1][j]),
                 CDet(Minor(A, 1, j)))]))

CharPoly(A, z) ==
    CDet(Tup([i \in 1..NRows(A) |-> Tup([j \in 1..NCols(A) |->
            IF i = j THEN CSub(z, CReal(A[i][j])) ELSE CSub(CZero, CReal(A[i][j]))])]))

\* the eigenvalues of A with their multiplicities, in lexicographic order
Spectrum(A) ==
    LET n == NRows(A)
        roots == {z \in EigCand : CharPoly(A, z) = CZero}
        tr == CReal(RSum(Diagonal(A)))
    IN  CHOOSE s \in [1..n -> roots] :
            /\ \A z \in roots : \E i \in 1..n : s[i] = z
            /\ \A i \in 1..(n - 1) : CLeq(s[i], s[i + 1])
            /\ CSum(s) = tr
            /\ CProd(s) = CReal(Det(A))

\* numpy.linalg.eigvalsh of a symmetric matrix: a real vector
eigvalsh(A) ==
    LET s == Spectrum(A)
    IN  [cplx |-> FALSE, v |-> Tup([i \in 1..Len(s) |-> s[i][1]])]

\* numpy.linalg.eigvals: a real vector when every eigenvalue is real,
\* a complex vector otherwise
eigvals(A) ==
    LET s == Spectrum(A)
    IN  IF \A i \in 1..Len(s) : s[i][2] = R(0)
        THEN [cplx |-> FALSE, v |-> Tup([i \in 1..Len(s) |-> s[i][1]])]
        ELSE [cplx |-> TRUE, v |-> s]

(***************************************************************************)
(* The weighting structure w (a libpysal W): its weights as a matrix.      *)
(***************************************************************************)
\* w.sparse and w.full()[0]: the sparse and the dense materialization
Sparse(w0) == w0
Full(w0) == w0

\* weights.lag_spatial(w, v): the product W.v
lag_spatial(w0, v) == MatDot(Sparse(w0), v)

\* the neighbour structure of w (the binary transformation of the weights)
Binary(w0) ==
    Tup([i \in 1..NRows(w0) |-> Tup([j \in 1..NCols(w0) |->
        IF w0[i][j] = R(0) THEN R(0) ELSE R(1)])])

\* w.asymmetry(intrinsic=False) == []: the neighbour structure is symmetric
StructSymmetric(w0) == Binary(w0) = MatT(Binary(w0))

RowSums(A) == Tup([i \in 1..NRows(A) |-> RSum(A[i])])
RowStandardize(w0) ==
    LET rs == RowSums(w0)
    IN  Tup([i \in 1..NRows(w0) |-> Tup([j \in 1..NCols(w0) |->
            RDiv(w0[i][j], rs[i])])])

\* symmetrize(w): D^(1/2) * Wr * D^(-1/2), Wr the row-standardized weights and
\* D the diagonal matrix of the numbers of neighbours; a symmetric matrix
\* with the eigenvalues of Wr
symmetrize(w0) ==
    LET d == RowSums(Binary(w0))
        wr == RowStandardize(w0)
    IN  Tup([i \in 1..NRows(w0) |-> Tup([j \in 1..NCols(w0) |->
            RMul(wr[i][j], RSqrt(RDiv(d[i], d[j])))])])

(***************************************************************************)
(* The concentrated log-likelihood functions.  Each returns                *)
(* [raised, clik, nlsig2, jacob]: raised names the exception the call      *)
(* raises ("none" when it returns), clik is the returned value.            *)
(***************************************************************************)
NoValue == [raised |-> "none", clik |-> LNaN, nlsig2 |-> LNaN, jacob |-> LNaN]

\* ys, xs, xsxs and the residual variance sig2 = ee[0][0] / n of the GLS fit
Filtered(lam, n, y0, ylag0, x0, xlag0) ==
    LET ys == MatSub(y0, MatScale(lam, ylag0))
        xs == MatSub(x0, MatScale(lam, xlag0))
    IN  [ys |-> ys, xs |-> xs,
         ysys |-> MatDot(MatT(ys), ys),
         xsxs |-> MatDot(MatT(xs), xs),
         xsys |-> MatDot(MatT(xs), ys)]

Sig2Of(f, n) ==
    LET xsxsi == Inv(f.xsxs)
        x1 == MatDot(xsxsi, f.xsys)
        x2 == MatDot(MatT(f.xsys), x1)
        ee == MatSub(f.ysys, x2)
    IN  RDiv(ee[1][1], R(n))

\* faulty variant of WAfterFill: a is W itself, scaled and filled in place
WAfterFill_aliased(lam, W0) == FillDiagonal(MatScale(RNeg(lam), W0), R(1))

\* W after "a = -lam * W" and the fill of a's diagonal: the product is a new
\* array, so the fill leaves W as it was
WAfterFill(lam, W0) == W0

\* faulty variant of DenseJacobian: the diagonal of a is not set to 1
DenseJacobian_noFill(lam, W0) == NpLog(Det(MatScale(RNeg(lam), W0)))

DenseJacobian(lam, W0) ==
    LET a == FillDiagonal(MatScale(RNeg(lam), W0), R(1))
    IN  NpLog(Det(a))

err_c_loglik(lam, n, y0, ylag0, x0, xlag0, W0) ==
    LET f == Filtered(lam, n, y0, ylag0, x0, xlag0)
    IN  IF Singular(f.xsxs) THEN [NoValue EXCEPT !.raised = "LinAlgError"]
        ELSE LET nlsig2 == HalfNLog(n, Sig2Of(f, n))
                 jacob == DenseJacobian(lam, W0)
             IN  [raised |-> "none", clik |-> LSub(nlsig2, jacob),
                  nlsig2 |-> nlsig2, jacob |-> jacob]

\* a trial lambda as a 1 x 1 array
Array1x1(l) == <<<<l>>>>
IsArray1x1(lam) == Len(lam) = 1 /\ Len(lam[1]) = 1

\* faulty variant of Unwrap: the element is truncated to an integer
Unwrap_truncated(lam) ==
    IF IsArray1x1(lam)
    THEN LET e == lam[1][1] IN R(RSign(e) * (IAbs(e[1]) \div e[2]))
    ELSE lam

\* a trial lambda that is a 1 x 1 array is replaced by its element
Unwrap(lam) == IF IsArray1x1(lam) THEN lam[1][1] ELSE lam

SparseJacobian(lam, I0, Wsp) ==
    LET a == MatSub(I0, MatScale(lam, Wsp))
        LU == SuperLU(a)
    IN  [ok |-> LU.ok,
         jacob |-> LSum(Tup([i \in 1..Len(LU.U) |-> NpLogAbs(LU.U[i])]))]

err_c_loglik_sp(lam0, n, y0, ylag0, x0, xlag0, I0, Wsp) ==
    LET lam == Unwrap(lam0)
        f == Filtered(lam, n, y0, ylag0, x0, xlag0)
    IN  IF Singular(f.xsxs) THEN [NoValue EXCEPT !.raised = "LinAlgError"]
        ELSE LET nlsig2 == HalfNLog(n, Sig2Of(f, n))
                 J == SparseJacobian(lam, I0, Wsp)
             IN  IF ~J.ok THEN [NoValue EXCEPT !.raised = "RuntimeError"]
                 ELSE [raised |-> "none", clik |-> LSub(nlsig2, J.jacob),
                       nlsig2 |-> nlsig2, jacob |-> J.jacob]

\* a complex128 value of numpy.log(...).sum(), known by its real part
LComplex(re) ==
    [t |-> CASE re.t = "fin" -> "complex"
             [] re.t = "ninf" -> "complex_ninf"
             [] OTHER -> "complex_nan",
     q |-> re.q]
IsComplex(a) == a.t \in {"complex", "complex_ninf", "complex_nan"}
RealOf(a) ==
    CASE a.t = "complex" -> LFin(a.q)
      [] a.t = "complex_ninf" -> LNInf
      [] OTHER -> LNaN

\* np.log(1 - revals).sum(): a complex number when evals is a complex vector
OrdLogSum(lam, ev) ==
    IF ev.cplx
    THEN LComplex(LSum(Tup([i \in 1..Len(ev.v) |->
            NpLogCplxReal(CSub(COne, CMul(CReal(lam), ev.v[i])))])))
    ELSE LSum(Tup([i \in 1..Len(ev.v) |-> NpLog(RSub(R(1), RMul(lam, ev.v[i])))]))

\* faulty variant of TakeReal: a complex sum is kept as it is
TakeReal_kept(jacob) == jacob

\* if isinstance(jacob, complex): jacob = jacob.real
TakeReal(jacob) == IF IsComplex(jacob) THEN RealOf(jacob) ELSE jacob

OrdJacobian(lam, ev) == TakeReal(OrdLogSum(lam, ev))

err_c_loglik_ord(lam, n, y0, ylag0, x0, xlag0, ev) ==
    LET f == Filtered(lam, n, y0, ylag0, x0, xlag0)
    IN  IF Singular(f.xsxs) THEN [NoValue EXCEPT !.raised = "LinAlgError"]
        ELSE LET nlsig2 == HalfNLog(n, Sig2Of(f, n))
                 jacob == OrdJacobian(lam, ev)
             IN  [raised |-> "none", clik |-> LSub(nlsig2, jacob),
                  nlsig2 |-> nlsig2, jacob |-> jacob]

(***************************************************************************)
(* Inputs of an estimation run.                                            *)
(***************************************************************************)
Col(s) == Tup([i \in 1..Len(s) |-> <<R(s[i])>>])
IntMat(A) == Tup([i \in 1..Len(A) |-> Tup([j \in 1..Len(A[i]) |-> R(A[i][j])])])

\* two regions, row-standardized contiguity weights
W2 == IntMat(<<<<0, 1>>, <<1, 0>>>>)
\* two regions, general (not standardized) symmetric weights
W2x2 == IntMat(<<<<0, 2>>, <<2, 0>>>>)
W2x3 == IntMat(<<<<0, 3>>, <<3, 0>>>>)
\* two regions, weights with self-neighbours and an asymmetric structure
W2diag == <<<<Rat(1, 2), Rat(1, 2)>>, <<R(0), R(1)>>>>
\* three regions, all neighbours of each other, row-standardized
W3 == <<<<R(0), Rat(1, 2), Rat(1, 2)>>,
        <<Rat(1, 2), R(0), Rat(1, 2)>>,
        <<Rat(1, 2), Rat(1, 2), R(0)>>>>

\* three regions, row-standardized, an asymmetric neighbour structure with the
\* eigenvalues 1 and -1/2 +- i/2
W3c == <<<<R(0), R(1), R(0)>>,
         <<R(0), R(0), R(1)>>,
         <<Rat(1, 2), Rat(1, 2), R(0)>>>>

Datasets ==
    { [y |-> Col(<<1, 3>>), x |-> Col(<<1, 1>>), w |-> W2],
      [y |-> Col(<<1, 3>>), x |-> Col(<<1, 2>>), w |-> W2x3],
      [y |-> Col(<<1, 3>>), x |-> Col(<<1, 1>>), w |-> W2x2],
      [y |-> Col(<<1, 3>>), x |-> Col(<<1, 2>>), w |-> W2x2],
      [y |-> Col(<<1, 3>>), x |-> Col(<<1, 1>>), w |-> W2diag],
      [y |-> Col(<<1, 0, 5>>),
       x |-> IntMat(<<<<1, 0>>, <<1, 1>>, <<1, 2>>>>), w |-> W3],
      [y |-> Col(<<1, 0, 2>>), x |-> Col(<<1, 1, 1>>), w |-> W3c] }

\* method strings, as sequences of characters
Methods ==
    { <<"f", "u", "l", "l">>, <<"L", "u">>, <<"O", "R", "D">>,
      <<"g", "m">>, <<"L", "U", "X">>, <<>> }

Epsilons == {Rat(1, 10000000)}

\* faulty variant of Upper: the method string is compared as given
Upper_asGiven(str) == str

\* str.upper()
UpperChar(c) ==
    CASE c = "f" -> "F" [] c = "u" -> "U" [] c = "l" -> "L" [] c = "o" -> "O"
      [] c = "r" -> "R" [] c = "d" -> "D" [] c = "g" -> "G" [] c = "m" -> "M"
      [] c = "x" -> "X" [] OTHER -> c
Upper(str) == Tup([i \in 1..Len(str) |-> UpperChar(str[i])])

M_FULL == <<"F", "U", "L", "L">>
M_LU == <<"L", "U">>
M_ORD == <<"O", "R", "D">>

\* the points the scalar optimizer can propose, before its bounds are applied
LamCand == {Rat(p, 2) : p \in -LamNum..LamNum}

None == <<>>
Some(v) == <<v>>
Val(o) == o[1]

(***************************************************************************)
(* State of one construction of a BaseML_Error / ML_Error object.          *)
(***************************************************************************)
VARIABLES
    cls,        \* the class whose constructor was called
    arg,        \* the arguments y, x, w, method, epsilon of the call
    pc,         \* position in BaseML_Error.__init__
    self,       \* the attributes set on the object so far
    ylag, xlag, \* locals: the spatial lags
    W,          \* local: the matrix the covariance step uses
    evals,      \* local: the eigenvalue vector (method "ord")
    neig,       \* number of eigenvalue computations made
    call,       \* the minimize_scalar call: objective, bounds, tol
    trials,     \* the evaluations of the objective, in order
    best,       \* the optimizer's current best trial (index into trials)
    res,        \* local: the optimizer's result
    xsxsi,      \* local: inverse of xs'xs at the final lambda
    error       \* the exception that ended the run, "none" if none

vars == <<cls, arg, pc, self, ylag, xlag, W, evals, neig, call, trials, best,
          res, xsxsi, error>>

NoAttrs ==
    [y |-> None, x |-> None, n |-> None, k |-> None, method |-> None,
     epsilon |-> None, lam |-> None, logll |-> None, betas |-> None,
     u |-> None, predy |-> None, e_filtered |-> None, sig2 |-> None,
     vm1 |-> None, vm |-> None]

Init ==
    /\ cls \in {"BaseML_Error", "ML_Error"}
    /\ \E d \in Datasets, m \in Methods, e \in Epsilons :
        arg = [y |-> d.y, x |-> d.x, w |-> d.w, method |-> m, epsilon |-> e]
    /\ pc = IF cls = "ML_Error" THEN "ML_Error" ELSE "call"
    /\ self = NoAttrs
    /\ ylag = None /\ xlag = None /\ W = None /\ evals = None
    /\ neig = 0
    /\ call = None
    /\ trials = <<>>
    /\ best = 0
    /\ res = None
    /\ xsxsi = None
    /\ error = "none"

\* ML_Error.__init__: the method string is upper-cased and handed on
ML_Error_init ==
    /\ pc = "ML_Error"
    /\ arg' = [arg EXCEPT !.method = Upper(arg.method)]
    /\ pc' = "call"
    /\ UNCHANGED <<cls, self, ylag, xlag, W, evals, neig, call, trials, best,
                   res, xsxsi, error>>

\* BaseML_Error.__init__, the regression variables
SetUp ==
    /\ pc = "call"
    /\ self' = [self EXCEPT !.y = Some(arg.y), !.x = Some(arg.x),
                            !.n = Some(NRows(arg.x)), !.k = Some(NCols(arg.x)),
                            !.method = Some(arg.method),
                            !.epsilon = Some(arg.epsilon)]
    /\ pc' = "lags"
    /\ UNCHANGED <<cls, arg, ylag, xlag, W, evals, neig, call, trials, best,
                   res, xsxsi, error>>

get_x_lag(w0, x0) == lag_spatial(w0, x0)

\* faulty variant of ComputeLags: the eigenvalues are computed along with the lags
ComputeLags_withEigenvalues ==
    /\ pc = "lags"
    /\ ylag' = Some(lag_spatial(arg.w, Val(self.y)))
    /\ xlag' = Some(get_x_lag(arg.w, Val(self.x)))
    /\ evals' = Some(eigvals(Full(arg.w)))
    /\ neig' = neig + 1
    /\ pc' = "dispatch"
    /\ UNCHANGED <<cls, arg, self, W, call, trials, best, res, xsxsi, error>>

\* the spatial filters ylag and xlag
ComputeLags ==
    /\ pc = "lags"
    /\ ylag' = Some(lag_spatial(arg.w, Val(self.y)))
    /\ xlag' = Some(get_x_lag(arg.w, Val(self.x)))
    /\ pc' = "dispatch"
    /\ UNCHANGED <<cls, arg, self, W, evals, neig, call, trials, best,
                   res, xsxsi, error>>

\* faulty variant of Raise: the exception is caught and the run goes on
Raise_swallowed(e) == error' = e /\ pc' = pc

\* an exception leaves the constructor: nothing in it catches one
Raise(e) == error' = e /\ pc' = "failed"

methodML == Upper(arg.method)
Supported == {M_FULL, M_LU, M_ORD}

\* faulty variant of SearchBounds: a wider upper bound
SearchBounds_wide == <<R(-1), R(2)>>

\* bounds=(-1.0, 1.0)
SearchBounds == <<R(-1), R(1)>>

MinimizeCall(f) == [fun |-> f, bounds |-> SearchBounds, tol |-> arg.epsilon]

SelectFull ==
    /\ pc = "dispatch"
    /\ methodML \in Supported /\ methodML = M_FULL
    /\ W' = Some(Full(arg.w))
    /\ call' = Some(MinimizeCall("err_c_loglik"))
    /\ pc' = "search"
    /\ UNCHANGED <<cls, arg, self, ylag, xlag, evals, neig, trials, best,
                   res, xsxsi, error>>

SelectLU ==
    /\ pc = "dispatch"
    /\ methodML \in Supported /\ methodML = M_LU
    /\ call' = Some(MinimizeCall("err_c_loglik_sp"))
    /\ pc' = "search"
    /\ UNCHANGED <<cls, arg, self, ylag, xlag, W, evals, neig, trials, best,
                   res, xsxsi, error>>

SelectOrd ==
    /\ pc = "dispatch"
    /\ methodML \in Supported /\ methodML = M_ORD
    /\ IF StructSymmetric(arg.w)
       THEN LET WW == symmetrize(arg.w)
            IN  evals' = Some(eigvalsh(WW)) /\ W' = Some(WW)
       ELSE LET Wd == Full(arg.w)
            IN  evals' = Some(eigvals(Wd)) /\ W' = Some(Wd)
    /\ neig' = neig + 1
    /\ call' = Some(MinimizeCall("err_c_loglik_ord"))
    /\ pc' = "search"
    /\ UNCHANGED <<cls, arg, self, ylag, xlag, trials, best, res, xsxsi, error>>

RaiseUnsupported ==
    /\ pc = "dispatch"
    /\ methodML \notin Supported
    /\ Raise("Exception")
    /\ UNCHANGED <<cls, arg, self, ylag, xlag, W, evals, neig, call, trials,
                   best, res, xsxsi>>

(***************************************************************************)
(* The bounded scalar minimizer (scipy.optimize.minimize_scalar, method    *)
(* "bounded"): it evaluates the objective at points strictly inside its    *)
(* bounds, keeps the best point seen (a later point replaces it when its   *)
(* value is <= the best value), and returns that point with a success      *)
(* flag.  The points it proposes are left open.                            *)
(***************************************************************************)
\* faulty variant of EvalsArg: the eigenvalues are computed anew for every evaluation
EvalsArg_recomputed == Some(eigvals(Full(arg.w)))

\* the eigenvalue vector in the args tuple of the minimize_scalar call
EvalsArg == evals

\* one call of the objective, with the args tuple of the minimize_scalar call
Evaluate(f, l) ==
    LET n == Val(self.n)
        y0 == Val(self.y)
        x0 == Val(self.x)
    IN  CASE f = "err_c_loglik" ->
                err_c_loglik(l, n, y0, Val(ylag), x0, Val(xlag), Val(W))
          [] f = "err_c_loglik_sp" ->
                err_c_loglik_sp(l, n, y0, Val(ylag), x0, Val(xlag),
                                Identity(NRows(arg.w)), Sparse(arg.w))
          [] f = "err_c_loglik_ord" ->
                err_c_loglik_ord(l, n, y0, Val(ylag), x0, Val(xlag), Val(EvalsArg))

InBounds(l, b) == RLess(b[1], l) /\ RLess(l, b[2])

\* the forms in which the optimizer hands a trial point to the objective: a
\* scalar, or (seen with the sparse objective) a 1 x 1 array; the points that
\* follow an array are computed from it and are arrays too
TrialForms(f) ==
    IF f = "err_c_loglik_sp"
    THEN IF trials # <<>> /\ trials[Len(trials)].arr THEN {TRUE} ELSE BOOLEAN
    ELSE {FALSE}

Trial ==
    /\ pc = "search"
    /\ Len(trials) < MaxIter
    /\ \E l \in LamCand, arr \in TrialForms(Val(call).fun) :
        /\ InBounds(l, Val(call).bounds)
        /\ LET out == Evaluate(Val(call).fun, IF arr THEN Array1x1(l) ELSE l)
               t == [lam |-> l, arr |-> arr, fun |-> Val(call).fun,
                     evals |-> EvalsArg, out |-> out]
           IN  /\ trials' = Append(trials, t)
               /\ W' = IF Val(call).fun = "err_c_loglik"
                        THEN Some(WAfterFill(l, Val(W))) ELSE W
               /\ IF out.raised # "none"
                  THEN /\ Raise(out.raised)
                       /\ best' = best
                  ELSE /\ best' = IF best = 0 THEN 1
                                  ELSE IF LLeq(out.clik, trials[best].out.clik)
                                       THEN Len(trials) + 1 ELSE best
                       /\ UNCHANGED <<error, pc>>
    /\ UNCHANGED <<cls, arg, self, ylag, xlag, evals, neig, call, res, xsxsi>>

\* a NaN among the best value and the last value
SawNaN == trials[best].out.clik.t = "nan" \/ trials[Len(trials)].out.clik.t = "nan"

\* minimize_scalar returns; with method "LU", W = Wsp follows the call
OptimizerReturn ==
    /\ pc = "search"
    /\ Len(trials) >= 1
    /\ \E success \in BOOLEAN :
        /\ Len(trials) >= MaxIter => ~success
        /\ (Len(trials) < MaxIter /\ ~SawNaN) => success
        /\ res' = Some([x |-> trials[best].lam, fun |-> trials[best].out.clik,
                        success |-> success])
    /\ W' = IF Val(call).fun = "err_c_loglik_sp" THEN Some(Sparse(arg.w)) ELSE W
    /\ pc' = "result"
    /\ UNCHANGED <<cls, arg, self, ylag, xlag, evals, neig, call, trials, best,
                   xsxsi, error>>

\* -res.fun - n/2 * ln(2*pi) - n/2, kept as -res.fun and the n of the constants
LogLik(fun, n) == [negfun |-> LNeg(fun), n |-> n]

\* self.lam = res.x and the full log-likelihood
SetLam ==
    /\ pc = "result"
    /\ self' = [self EXCEPT !.lam = Some(Val(res).x),
                            !.logll = Some(LogLik(Val(res).fun, Val(self.n)))]
    /\ pc' = "estimate"
    /\ UNCHANGED <<cls, arg, ylag, xlag, W, evals, neig, call, trials, best,
                   res, xsxsi, error>>

\* faulty variant of Betas: lambda is placed first
Betas_lamFirst(b, lam) == VStack(<<<<lam>>>>, b)

\* np.vstack((b, self.lam))
Betas(b, lam) == VStack(b, <<<<lam>>>>)

\* faulty variant of FilteredResiduals: the residuals are left unfiltered
FilteredResiduals_unfiltered(u, lam, w0) == u

\* self.u - self.lam * weights.lag_spatial(w, self.u)
FilteredResiduals(u, lam, w0) == MatSub(u, MatScale(lam, lag_spatial(w0, u)))

\* b, residuals, predicted values and the residual variance
Estimate ==
    /\ pc = "estimate"
    /\ LET lam == Val(self.lam)
           f == Filtered(lam, Val(self.n), Val(self.y), Val(ylag), Val(self.x), Val(xlag))
       IN  IF Singular(f.xsxs)
           THEN /\ Raise("LinAlgError")
                /\ UNCHANGED <<self, xsxsi>>
           ELSE LET inv == Inv(f.xsxs)
                    b == MatDot(inv, f.xsys)
                    u == MatSub(arg.y, MatDot(Val(self.x), b))
                    predy == MatSub(Val(self.y), u)
                    e == FilteredResiduals(u, lam, arg.w)
                    sig2 == MatScale(Rat(1, Val(self.n)), MatDot(MatT(e), e))
                IN  /\ xsxsi' = Some(inv)
                    /\ self' = [self EXCEPT !.betas = Some(Betas(b, lam)),
                                            !.u = Some(u),
                                            !.predy = Some(predy),
                                            !.e_filtered = Some(e),
                                            !.sig2 = Some(sig2)]
                    /\ pc' = "covariance"
                    /\ UNCHANGED error
    /\ UNCHANGED <<cls, arg, ylag, xlag, W, evals, neig, call, trials, best, res>>

\* spfill_diagonal(a, 1.0) and spinv(a), spdot(W, ai)
spfill_diagonal(a, v) == FillDiagonal(a, v)
spdot(A, B) == MatDot(A, B)
Trace(A) == RSum(Diagonal(A))

\* the information matrix of (lambda, sigma2)
InfoMatrix(W0, lam, sig2, n) ==
    LET a == spfill_diagonal(MatScale(RNeg(lam), W0), R(1))
        ai == Inv(a)
        wai == spdot(W0, ai)
        tr1 == Trace(wai)
        tr2 == Trace(spdot(wai, wai))
        tr3 == Trace(spdot(MatT(wai), wai))
        v1 == VStack(<<<<RAdd(tr2, tr3)>>>>, <<<<RDiv(tr1, sig2)>>>>)
        v2 == VStack(<<<<RDiv(tr1, sig2)>>>>,
                     <<<<RDiv(R(n), RMul(R(2), RMul(sig2, sig2)))>>>>)
    IN  HStack(v1, v2)

\* faulty variant of AssembleVM: the sigma2 variance vm1[1, 1] is taken for lambda's
AssembleVM_sigmaVariance(varb, vm1, k) ==
    LET vv == HStack(varb, Zeros(k, 1))
        vv1 == HStack(Zeros(1, k), MatScale(vm1[2][2], Ones(1, 1)))
    IN  VStack(vv, vv1)

\* the variance matrix for beta, lambda
AssembleVM(varb, vm1, k) ==
    LET vv == HStack(varb, Zeros(k, 1))
        vv1 == HStack(Zeros(1, k), MatScale(vm1[1][1], Ones(1, 1)))
    IN  VStack(vv, vv1)

\* variance-covariance matrices of the betas and of (lambda, sigma2); a run
\* whose residual variance is exactly zero (a perfect fit) is not followed
\* past the inversion of a
Covariance ==
    /\ pc = "covariance"
    /\ LET lam == Val(self.lam)
           sig2 == Val(self.sig2)[1][1]
           k == Val(self.k)
           a == spfill_diagonal(MatScale(RNeg(lam), Val(W)), R(1))
       IN  IF Singular(a)
           THEN /\ Raise(IF Val(call).fun = "err_c_loglik_sp"
                          THEN "RuntimeError" ELSE "LinAlgError")
                /\ self' = self
           ELSE /\ sig2 # R(0)
                /\ LET v == InfoMatrix(Val(W), lam, sig2, Val(self.n))
                   IN  IF Singular(v)
                       THEN /\ Raise("LinAlgError")
                            /\ self' = self
                       ELSE LET varb == MatScale(sig2, Val(xsxsi))
                                vm1 == Inv(v)
                            IN  /\ self' = [self EXCEPT
                                                !.vm1 = Some(vm1),
                                                !.vm = Some(AssembleVM(varb, vm1, k))]
                                /\ pc' = "done"
                                /\ error' = error
    /\ W' = Some(WAfterFill(Val(self.lam), Val(W)))
    /\ UNCHANGED <<cls, arg, ylag, xlag, evals, neig, call, trials, best,
                   res, xsxsi>>

Next ==
    \/ ML_Error_init
    \/ SetUp
    \/ ComputeLags
    \/ SelectFull
    \/ SelectLU
    \/ SelectOrd
    \/ RaiseUnsupported
    \/ Trial
    \/ OptimizerReturn
    \/ SetLam
    \/ Estimate
    \/ Covariance

Spec == Init /\ [][Next]_vars

(***************************************************************************)
(* Properties of the estimation run.                                       *)
(***************************************************************************)
CasePairs ==
    {<<"f", "F">>, <<"u", "U">>, <<"l", "L">>, <<"o", "O">>, <<"r", "R">>,
     <<"d", "D">>}
SameLetter(a, b) == a = b \/ <<a, b>> \in CasePairs \/ <<b, a>> \in CasePairs
SameWord(s, t) == Len(s) = Len(t) /\ \A i \in 1..Len(s) : SameLetter(s[i], t[i])
IsFull(m) == SameWord(m, <<"f", "u", "l", "l">>)
IsLu(m) == SameWord(m, <<"l", "u">>)
IsOrd(m) == SameWord(m, <<"o", "r", "d">>)
IsFullLuOrd(m) == IsFull(m) \/ IsLu(m) \/ IsOrd(m)

PastDispatch == pc \in {"search", "result", "estimate", "covariance", "done"}
NoEstimate ==
    self.lam = None /\ self.betas = None /\ self.vm = None /\ self.logll = None
Between(l, lo, hi) == RLeq(lo, l) /\ RLeq(l, hi)

\* C1: the method selector is accepted if and only if, compared without
\* regard to case, it is "full", "lu" or "ord"; for any other string the
\* construction fails with an error and lam, betas, vm, logll are not set.
C1_MethodSelector ==
    /\ PastDispatch => IsFullLuOrd(arg.method)
    /\ (pc = "failed" /\ error # "Exception") => IsFullLuOrd(arg.method)
    /\ (pc = "failed" /\ error = "Exception") =>
            (~IsFullLuOrd(arg.method) /\ NoEstimate)

C1_Witness ==
    pc = "failed" /\ error = "Exception" /\ arg.method = <<"L", "U", "X">>

\* C2 as stated: when the method is unsupported, nothing has been computed
\* when the error is raised: no spatial lag, no eigenvalues, no likelihood
\* evaluation, no optimizer call.
C2_NothingComputedBeforeError ==
    (pc = "failed" /\ error = "Exception") =>
        /\ ylag = None /\ xlag = None
        /\ evals = None /\ neig = 0
        /\ trials = <<>>
        /\ call = None

\* C2 amended: when the method is unsupported, the error is raised before any
\* eigenvalue computation, likelihood evaluation or optimizer call; the
\* spatial lags ylag and xlag have been computed by then.
C2_OnlyLagsBeforeError ==
    (pc = "failed" /\ error = "Exception") =>
        /\ ylag # None /\ xlag # None
        /\ evals = None /\ neig = 0
        /\ trials = <<>>
        /\ call = None

C2_Witness == pc = "failed" /\ error = "Exception" /\ ylag # None

\* C3: a result of the optimizer that reports failure is never accepted:
\* lam, logll, betas and vm are not derived from it.
C3_NonConvergedNeverAccepted ==
    (res # None /\ ~Val(res).success) => NoEstimate

\* C4: every failure raised during a run ends it: the step that raises leaves
\* the constructor, no step follows a failure (no other strategy, no other
\* lambda), and the constructor does not complete with a result.
C4_FailuresPropagate ==
    [][/\ error' # "none" => pc' = "failed"
       /\ pc = "failed" => FALSE
       /\ pc' = "failed" => (self'.vm = None /\ self'.vm1 = None)]_vars

C4_Witness ==
    /\ pc = "failed" /\ error = "LinAlgError"
    /\ Len(trials) >= 2
    /\ trials[Len(trials)].out.raised = "LinAlgError"

\* C5: the strategy is chosen once and every trial evaluation uses its
\* objective; with "ord" the eigenvalues are computed exactly once, before
\* the first evaluation, and the same vector is passed to every evaluation.
C5_StrategyChosenOnce ==
    /\ neig <= 1
    /\ \A i \in 1..Len(trials) :
        /\ call # None
        /\ trials[i].fun = Val(call).fun
        /\ IsFull(arg.method) => trials[i].fun = "err_c_loglik"
        /\ IsLu(arg.method) => trials[i].fun = "err_c_loglik_sp"
        /\ IsOrd(arg.method) => trials[i].fun = "err_c_loglik_ord"
        /\ trials[i].evals = evals
        /\ IsOrd(arg.method) => (neig = 1 /\ trials[i].evals # None)

C5_Witness ==
    /\ Len(trials) >= 2
    /\ trials[2].fun = "err_c_loglik_ord"
    /\ trials[1].lam # trials[2].lam

\* C6: every strategy returns, as its Jacobian term, the logarithm of the
\* absolute value of det(I - lambda*W), also when the determinant is negative
\* and when W has non-zero diagonal entries.
C6_JacobianIsLogAbsDet ==
    \A i \in 1..Len(trials) :
        trials[i].out.raised = "none" =>
            trials[i].out.jacob =
                NpLogAbs(Det(MatSub(Identity(NRows(arg.w)),
                                    MatScale(trials[i].lam, Sparse(arg.w)))))

\* the residual variance of the ordinary-least-squares fit of y on x
OLSSig2(y0, x0) ==
    LET b == MatDot(Inv(MatDot(MatT(x0), x0)), MatDot(MatT(x0), y0))
        e == MatSub(y0, MatDot(x0, b))
    IN  RDiv(MatDot(MatT(e), e)[1][1], R(NRows(y0)))

\* C7: at lambda = 0 the Jacobian term is exactly zero for each strategy and
\* each W, and the value returned is (n/2)*log(sigma2) of the OLS fit.
C7_JacobianVanishesAtZero ==
    \A i \in 1..Len(trials) :
        (trials[i].lam = R(0) /\ trials[i].out.raised = "none") =>
            /\ LIsZero(trials[i].out.jacob)
            /\ trials[i].out.clik = HalfNLog(NRows(arg.y), OLSSig2(arg.y, arg.x))

C7_Witness ==
    /\ arg.w = W2diag
    /\ \E i \in 1..Len(trials) :
        /\ trials[i].lam = R(0)
        /\ trials[i].fun = "err_c_loglik"
        /\ trials[i].out.raised = "none"

\* C8: every trial lambda and the final lam lie in the interval bounded by
\* -1 and 1, which is the same for every strategy and every input.
C8_SearchInterval ==
    /\ call # None => Val(call).bounds = <<R(-1), R(1)>>
    /\ \A i \in 1..Len(trials) : Between(trials[i].lam, R(-1), R(1))
    /\ self.lam # None => Between(Val(self.lam), R(-1), R(1))

C8_Witness ==
    /\ self.lam # None /\ Val(self.lam) = Rat(1, 2)
    /\ Len(trials) >= 2

C10_CovarianceBlocks ==
    self.vm # None =>
        LET k == NCols(arg.x)
            n == NRows(arg.x)
            lam == Val(self.lam)
            sig2 == Val(self.sig2)[1][1]
            vm == Val(self.vm)
            vm1 == Val(self.vm1)
            f == Filtered(lam, n, arg.y, lag_spatial(arg.w, arg.y),
                          arg.x, lag_spatial(arg.w, arg.x))
            block == Tup([i \in 1..k |-> SubSeq(vm[i], 1, k)])
        IN  /\ Len(vm) = k + 1
            /\ \A i \in 1..(k + 1) : Len(vm[i]) = k + 1
            /\ MatDot(f.xsxs, block) = MatScale(sig2, Identity(k))
            /\ MatDot(vm1, InfoMatrix(Val(W), lam, sig2, n)) = Identity(2)
            /\ vm[k + 1][k + 1] = vm1[1][1]
            /\ \A i \in 1..k : vm[i][k + 1] = R(0) /\ vm[k + 1][i] = R(0)

C10_Witness ==
    /\ pc = "done"
    /\ NCols(arg.x) = 2
    /\ Val(self.vm1)[1][2] # R(0)
    /\ Val(self.vm1)[1][1] # Val(self.vm1)[2][2]

\* the steps that evaluate the objective or estimate the covariance
InSearchOrCovariance == pc \in {"search", "covariance"}

\* evaluations at the same lambda gave the same result
RepeatableTrials(ts) ==
    \A i, j \in 1..Len(ts) : ts[i].lam = ts[j].lam => ts[i].out = ts[j].out

\* C11: no evaluation of the concentrated log-likelihood and no step of the
\* covariance estimator modifies y, x, ylag, xlag, the eigenvalue vector or
\* the weighting matrix W (nor the weights object they were taken from), and
\* evaluations at the same lambda return the same result
C11_InputsNotModified ==
    [][InSearchOrCovariance =>
        /\ arg' = arg
        /\ self'.y = self.y /\ self'.x = self.x
        /\ ylag' = ylag /\ xlag' = xlag
        /\ evals' = evals
        /\ (W # None => W' = W)
        /\ RepeatableTrials(trials')]_vars

\* a completed run of the dense strategy that evaluated the objective twice
\* at the same non-zero lambda and estimated the covariance at a non-zero lam
C11_Witness ==
    /\ pc = "done"
    /\ Val(call).fun = "err_c_loglik"
    /\ Val(self.lam) # R(0)
    /\ \E i, j \in 1..Len(trials) :
        /\ i < j
        /\ trials[i].lam = trials[j].lam
        /\ trials[i].lam # R(0)
        /\ trials[i].out.jacob.t = "fin"

\* the value err_c_loglik_sp returns for the scalar lambda l in this run
SparseAtScalar(l) ==
    err_c_loglik_sp(l, Val(self.n), Val(self.y), Val(ylag), Val(self.x),
                    Val(xlag), Identity(NRows(arg.w)), Sparse(arg.w))

\* C13: in the LU strategy a trial lambda that arrives as a 1 x 1 array is
\* unwrapped to its element before any use, so err_c_loglik_sp returns for it
\* what it returns for the scalar it contains; a scalar lambda is used
\* unchanged (each evaluation is examined when it is made, as the latest
\* entry of trials)
C13_ArrayLambdaUnwrapped ==
    /\ \A l \in LamCand : Unwrap(l) = l /\ Unwrap(Array1x1(l)) = l
    /\ (pc \in {"search", "failed"} /\ trials # <<>>) =>
        LET t == trials[Len(trials)]
        IN  t.fun = "err_c_loglik_sp" => t.out = SparseAtScalar(t.lam)

\* the sparse objective was given a non-zero lambda as a 1 x 1 array and
\* returned a value
C13_Witness ==
    \E i \in 1..Len(trials) :
        /\ trials[i].fun = "err_c_loglik_sp"
        /\ trials[i].arr
        /\ trials[i].lam # R(0)
        /\ trials[i].out.raised = "none"
        /\ trials[i].out.jacob.t = "fin"
        /\ ~LIsZero(trials[i].out.jacob)

\* a Python float: finite, infinite or NaN, not a complex number
IsRealScalar(a) == a.t \in {"fin", "ninf", "pinf", "nan"}

\* the real part of the sum over the eigenvalues e of log(1 - l*e)
SumOfLogs(l, ev) ==
    LSum(Tup([i \in 1..Len(ev.v) |->
        IF ev.cplx
        THEN LET z == CSub(COne, CMul(CReal(l), ev.v[i]))
             IN  IF z = CZero THEN LNInf
                 ELSE LFin(RAdd(RMul(z[1], z[1]), RMul(z[2], z[2])))
        ELSE NpLog(RSub(R(1), RMul(l, ev.v[i])))]))

\* xs'xs is singular at lambda l: the inner solve raises
InnerSolveFails(l) ==
    Singular(Filtered(l, Val(self.n), Val(self.y), Val(ylag), Val(self.x),
                      Val(xlag)).xsxs)

\* C12: in the eigenvalue strategy the Jacobian is the sum over the
\* eigenvalues of log(1 - lambda*eigenvalue), its real part when the sum is
\* complex, so err_c_loglik_ord returns a real scalar for real and for
\* complex eigenvalue vectors at every trial lambda, and raises nothing on
\* account of a complex sum (each evaluation is examined when it is made, as
\* the latest entry of trials)
C12_OrdJacobianReal ==
    (pc \in {"search", "failed"} /\ trials # <<>>) =>
        LET t == trials[Len(trials)]
        IN  t.fun = "err_c_loglik_ord" =>
                /\ t.out.raised = "none" <=> ~InnerSolveFails(t.lam)
                /\ t.out.raised = "none" =>
                    /\ t.out.jacob = SumOfLogs(t.lam, Val(t.evals))
                    /\ IsRealScalar(t.out.jacob)
                    /\ IsRealScalar(t.out.clik)

\* the eigenvalue objective was evaluated at a non-zero lambda with a complex
\* eigenvalue vector and returned a finite, non-zero Jacobian
C12_Witness ==
    \E i \in 1..Len(trials) :
        /\ trials[i].fun = "err_c_loglik_ord"
        /\ Val(trials[i].evals).cplx
        /\ \E e \in 1..Len(Val(trials[i].evals).v) :
                Val(trials[i].evals).v[e][2] # R(0)
        /\ trials[i].lam # R(0)
        /\ trials[i].out.raised = "none"
        /\ trials[i].out.jacob.t = "fin"
        /\ ~LIsZero(trials[i].out.jacob)

\* the residuals and the residual variance have been computed
Estimated == pc \in {"covariance", "done"}

\* C14: for each accepted method the matrix W of the covariance estimator
\* (a = -lam*W with unit diagonal, wai = W*inverse(a)) is the weighting matrix
\* that gave ylag, xlag and e_filtered, so that vm1 is what that matrix gives
\* at the estimated lam and sig2 whatever the method
C14_CovarianceUsesLagMatrix ==
    Estimated =>
        /\ Val(ylag) = MatDot(Val(W), Val(self.y))
        /\ Val(xlag) = MatDot(Val(W), Val(self.x))
        /\ Val(W) = Sparse(arg.w)
        /\ (pc = "done" /\ Val(self.sig2)[1][1] # R(0)) =>
                Val(self.vm1) = Inv(InfoMatrix(Sparse(arg.w), Val(self.lam),
                                               Val(self.sig2)[1][1], Val(self.n)))

\* C15: the filtered residuals of the final estimator are the GLS residuals
\* of the filtered regression at the estimated lambda, e_filtered = ys - xs*b
\* with ys = y - lam*W*y and xs = x - lam*W*x; the reported sig2 is the sig2
\* the concentrated log-likelihood evaluates at lam, and xs'*e_filtered = 0
C15_FilteredResidualsAreGLS ==
    Estimated =>
        LET lam == Val(self.lam)
            n == Val(self.n)
            k == Val(self.k)
            f == Filtered(lam, n, arg.y, MatDot(Sparse(arg.w), arg.y),
                          arg.x, MatDot(Sparse(arg.w), arg.x))
            b == SubSeq(Val(self.betas), 1, k)
            e == Val(self.e_filtered)
            sig2 == Val(self.sig2)[1][1]
        IN  /\ e = MatSub(f.ys, MatDot(f.xs, b))
            /\ MatDot(MatT(f.xs), e) = Zeros(k, 1)
            /\ sig2 = Sig2Of(f, n)
            /\ \A i \in 1..Len(trials) :
                    trials[i].lam = lam =>
                        trials[i].out.nlsig2 = HalfNLog(n, sig2)

\* an estimate with two regressors at a non-zero lambda and a residual
\* variance that is not zero
C15_Witness ==
    /\ Estimated
    /\ Val(self.lam) # R(0)
    /\ Val(self.k) = 2
    /\ Val(self.sig2)[1][1] # R(0)
    /\ \E i \in 1..Len(Val(self.e_filtered)) :
            Val(self.e_filtered)[i][1] # Val(self.u)[i][1]

====
